---- MODULE Spec2Model ----
(***************************************************************************)
(* Model of the RBP time parser (POST /parse-fecha).  The repository holds *)
(* several snapshots of the same pipeline; two of them carry the rule      *)
(* corrector and are modelled side by side:                                *)
(*   "server.js"  src/server.js                                            *)
(*   "part_002"   src/unnamed/part_002, lines 1-518                        *)
(* Text is kept as TLA+ strings and is matched character by character, as  *)
(* String.prototype.includes and the regular expressions of the code do.   *)
(* A luxon DateTime is a pair (instant, zone offset); instants are minutes *)
(* counted from 00:00 UTC of a Monday, zones are fixed-offset zones.       *)
(***************************************************************************)
EXTENDS Integers, Sequences, FiniteSets, TLC

VARIABLES snapshot, openai, localZone, pc, req, refDate, parsed, corregida,
          fecha, etapa, res, calls, llm, previa

vars == <<snapshot, openai, localZone, pc, req, refDate, parsed, corregida,
          fecha, etapa, res, calls, llm, previa>>

(***************************************************************************)
(* Bounds of the model.                                                    *)
(***************************************************************************)
\* reference instants fall on NumRefDays consecutive days (7 = every weekday)
NumRefDays == 7
\* the external parser's candidate lies at most MaxBack days before the
\* reference's day and at most MaxFwd days after it
MaxBack == 6
MaxFwd == 0

(***************************************************************************)
(* Strings: the JavaScript string operations the code uses.                *)
(***************************************************************************)
CharAt(s, i) == IF i >= 1 /\ i <= Len(s) THEN SubSeq(s, i, i) ELSE ""

\* s.startsWith(w, i-1): w occurs in s at (1-based) position i
HasAt(s, w, i) == i >= 1 /\ i + Len(w) - 1 <= Len(s) /\ SubSeq(s, i, i + Len(w) - 1) = w

\* String.prototype.includes
Includes(s, w) == \E i \in 1..(Len(s) - Len(w) + 1) : HasAt(s, w, i)

UpperChars == "ABCDEFGHIJKLMNOPQRSTUVWXYZÑÁÉÍÓÚÀÈÒÇÜ"
LowerChars == "abcdefghijklmnopqrstuvwxyzñáéíóúàèòçü"

UpperSet == {CharAt(UpperChars, k) : k \in 1..Len(UpperChars)}
LowerOf ==
  [c \in UpperSet |->
     CharAt(LowerChars, CHOOSE k \in 1..Len(UpperChars) : CharAt(UpperChars, k) = c)]

LowerChar(c) == IF c \in UpperSet THEN LowerOf[c] ELSE c

RECURSIVE toLowerCase(_)
\* String.prototype.toLowerCase
toLowerCase(s) == IF s = "" THEN "" ELSE LowerChar(Head(s)) \o toLowerCase(Tail(s))

\* \s of the regular expressions, and the white space trim() removes
Espacios == {" ", "\t", "\n"}
IsSpace(c) == c \in Espacios
\* \d
Digitos == {"0", "1", "2", "3", "4", "5", "6", "7", "8", "9"}
IsDigit(c) == c \in Digitos
\* \w (ASCII only: an accented letter is not a word character)
AsciiLetters ==
  {CharAt(UpperChars, k) : k \in 1..26} \cup {CharAt(LowerChars, k) : k \in 1..26}
IsWordChar(c) == IsDigit(c) \/ c = "_" \/ c \in AsciiLetters

\* String.prototype.trim
trim(s) ==
  IF \A i \in 1..Len(s) : IsSpace(CharAt(s, i)) THEN ""
  ELSE LET a == CHOOSE i \in 1..Len(s) :
                  /\ ~IsSpace(CharAt(s, i))
                  /\ \A j \in 1..(i - 1) : IsSpace(CharAt(s, j))
           b == CHOOSE i \in 1..Len(s) :
                  /\ ~IsSpace(CharAt(s, i))
                  /\ \A j \in (i + 1)..Len(s) : IsSpace(CharAt(s, j))
       IN SubSeq(s, a, b)

(***************************************************************************)
(* Regular-expression pieces.  A position is 1-based; 0 means "no match".  *)
(* Every \s+, \s* and \d+ of the code is followed by something that cannot *)
(* start with a character of the run, so the longest run is the only one   *)
(* the engine can end on.                                                  *)
(***************************************************************************)
\* the position after the literal w at i
Lit(s, i, w) == IF i # 0 /\ HasAt(s, w, i) THEN i + Len(w) ELSE 0

\* the position after the first alternative of ws (a sequence of literals,
\* in the order of the alternation) that occurs at i
Alt(s, i, ws) ==
  IF i # 0 /\ \E k \in 1..Len(ws) : HasAt(s, ws[k], i)
  THEN i + Len(ws[CHOOSE k \in 1..Len(ws) :
                     HasAt(s, ws[k], i) /\ \A j \in 1..(k - 1) : ~HasAt(s, ws[j], i)])
  ELSE 0

\* the end of the run of characters of the class clase that starts at i
RunEnd(s, i, clase) ==
  IF \A j \in i..Len(s) : CharAt(s, j) \in clase THEN Len(s) + 1
  ELSE CHOOSE j \in i..Len(s) :
         CharAt(s, j) \notin clase /\ \A k \in i..(j - 1) : CharAt(s, k) \in clase

\* \s*
Spaces0(s, i) == IF i = 0 THEN 0 ELSE RunEnd(s, i, Espacios)
\* \s+
Spaces1(s, i) == IF i # 0 /\ IsSpace(CharAt(s, i)) THEN RunEnd(s, i, Espacios) ELSE 0
\* \d+
Digits1(s, i) == IF i # 0 /\ IsDigit(CharAt(s, i)) THEN RunEnd(s, i, Digitos) ELSE 0
\* \b after a word character
WordEnd(s, i) == IF i # 0 /\ ~IsWordChar(CharAt(s, i)) THEN i ELSE 0

DigitValue(c) == CHOOSE n \in 0..9 : CharAt("0123456789", n + 1) = c

RECURSIVE parseInt(_)
\* parseInt of a run of decimal digits
parseInt(ds) ==
  IF ds = "" THEN 0
  ELSE 10 * parseInt(SubSeq(ds, 1, Len(ds) - 1)) + DigitValue(CharAt(ds, Len(ds)))

(***************************************************************************)
(* The expressions of the model.  What the code computes from the text of  *)
(* an expression alone is computed once for each of them, in the tables    *)
(* clasificacion, idiomas, patrones, rasgos and cambiaTraduccion below.    *)
(***************************************************************************)
\* expresion_usuario; "" stands for a missing or empty field
Expresiones ==
  { "", "hola", " Hola! ", "buenos días", "25",
    "pasado mañana", "demà passat", "pasado mañana a las 5", "demà passat a les 25",
    "el martes de la semana que viene", "divendres de la setmana vinent",
    "el sábado que viene", "dimarts que ve",
    "el viernes a las 7", "el viernes a las 7 am",
    "el viernes", "el sabado", "viernes",
    "en 2 días", "un par de dias",
    "dilluns", "el mes que viene", "el domingo que viene", "dijous a les 7",
    "el lunes a las 7 de la mañana", "el viernes a las 7h",
    "el martes que viene, martes próxima semana" }

(***************************************************************************)
(* Classifier and language detector.                                       *)
(***************************************************************************)
palabrasTemporales ==
  << "hoy", "mañana", "pasado", "ayer", "avui", "demà", "ahir",
     "lunes", "martes", "miércoles", "jueves", "viernes", "sábado", "sabado", "domingo",
     "dilluns", "dimarts", "dimecres", "dijous", "divendres", "dissabte", "diumenge",
     "semana", "mes", "año", "setmana", "any",
     "día", "dias", "dia", "dies",
     "hora", "horas", "hora", "hores",
     "minuto", "minutos", "minut", "minuts",
     "que viene", "que ve", "próximo", "proximo", "pròxim",
     "dentro de", "dins de", "en", "a las", "a les", "las", "les",
     "par de", "parell de", "cuando", "quan" >>

soloSaludos ==
  << "hola", "buenos días", "buenos dias", "buenas tardes", "buenas noches",
     "bon dia", "bona tarda", "bona nit", "adeu", "adios", "hasta luego",
     "gracias", "gràcies", "de nada", "per favor", "por favor", "si", "no",
     "ok", "vale", "perfecto", "perfecte" >>

palabrasCatalanas ==
  << "demà", "avui", "ahir", "setmana", "mes", "any",
     "dilluns", "dimarts", "dimecres", "dijous", "divendres", "dissabte", "diumenge",
     "gener", "febrer", "març", "abril", "maig", "juny", "juliol",
     "agost", "setembre", "octubre", "novembre", "desembre" >>

\* Array.prototype.some over a list of words
SomeIncluded(s, ws) == \E k \in 1..Len(ws) : Includes(s, ws[k])

\* variant of the classifier that looks for the greeting before the keywords;
\* C3 tells it from the classifier
esExpresionTemporalClara_saludoPrimero(expresion) ==
  LET normalizada == trim(toLowerCase(expresion))
  IN ~\E k \in 1..Len(soloSaludos), p \in {"", ".", "!", "?"} :
        normalizada = soloSaludos[k] \o p

esExpresionTemporalClara(expresion) ==
  LET normalizada == trim(toLowerCase(expresion))
      tieneTemporal == SomeIncluded(normalizada, palabrasTemporales)
      esSoloSaludo ==
        \E k \in 1..Len(soloSaludos) :
          LET saludoLower == toLowerCase(soloSaludos[k])
          IN \/ normalizada = saludoLower
             \/ normalizada = saludoLower \o "."
             \/ normalizada = saludoLower \o "!"
             \/ normalizada = saludoLower \o "?"
  IN IF tieneTemporal THEN TRUE
     ELSE IF esSoloSaludo THEN FALSE
     ELSE TRUE

detectarIdioma(expresion) ==
  LET normalizada == toLowerCase(expresion)
      tieneCatalan == SomeIncluded(normalizada, palabrasCatalanas)
  IN IF tieneCatalan THEN "ca" ELSE "es"

clasificacion == [e \in Expresiones |-> esExpresionTemporalClara(e)]
idiomas == [e \in Expresiones |-> detectarIdioma(e)]

(***************************************************************************)
(* luxon DateTime: [ts |-> instant in minutes, zone |-> offset in hours].  *)
(* Calendar fields are read in the DateTime's own zone; day 0 is a Monday. *)
(***************************************************************************)
MinPerDay == 24 * 60

null == [null |-> TRUE]

\* DateTime.fromJSDate(date, {zone}); without a zone the system's local zone
fromJSDate(date, zone) == [ts |-> date, zone |-> zone]
\* DateTime.prototype.toJSDate
toJSDate(dt) == dt.ts

LocalMinutes(dt) == dt.ts + dt.zone * 60
\* the calendar date, as a day number
day(dt) == LocalMinutes(dt) \div MinPerDay
hour(dt) == (LocalMinutes(dt) % MinPerDay) \div 60
minute(dt) == LocalMinutes(dt) % 60
\* DateTime.prototype.weekday: 1 = Monday .. 7 = Sunday
weekday(dt) == (day(dt) % 7) + 1

\* dt.plus({days: n})
plusDays(dt, n) == [dt EXCEPT !.ts = @ + n * MinPerDay]
\* dt.set({hour: h, minute: m, second: 0, millisecond: 0}); an hour past 23
\* overflows into the following days, as luxon's set does
setHourMinute(dt, h, m) ==
  [dt EXCEPT !.ts = day(dt) * MinPerDay + h * 60 + m - dt.zone * 60]
\* dt.set({hour: h})
setHour(dt, h) == setHourMinute(dt, h, minute(dt))

(***************************************************************************)
(* PatternPreprocessor: preprocesarExpresion.                              *)
(***************************************************************************)
\* the weekday alternation of the pattern rules, in its order
nombresDia ==
  << "lunes", "martes", "miércoles", "miercoles", "jueves", "viernes", "sábado", "sabado",
     "domingo", "dilluns", "dimarts", "dimecres", "dijous", "divendres", "dissabte",
     "diumenge" >>

diasSemana(nombre) ==
  CASE nombre \in {"lunes", "dilluns"} -> 1
    [] nombre \in {"martes", "dimarts"} -> 2
    [] nombre \in {"miércoles", "miercoles", "dimecres"} -> 3
    [] nombre \in {"jueves", "dijous"} -> 4
    [] nombre \in {"viernes", "divendres"} -> 5
    [] nombre \in {"sábado", "sabado", "dissabte"} -> 6
    [] nombre \in {"domingo", "diumenge"} -> 7

siguientes ==
  << "próxima", "proxima", "pròxima", "vinent", "propera", "siguiente", "següent" >>

\* (?:que\s+(?:viene|ve)|próxima|proxima|pròxima|vinent|propera|siguiente|següent)
RestoQueVieneOProxima(s, p) ==
  \/ Alt(s, Spaces1(s, Lit(s, p, "que")), <<"viene", "ve">>) # 0
  \/ Alt(s, p, siguientes) # 0

\* (?:semana|setmana)\s+(?:que ...|próxima|...)
RestoSemana(s, p) ==
  RestoQueVieneOProxima(s, Spaces1(s, Alt(s, p, <<"semana", "setmana">>)))

\* (?:de\s+la\s+)?(?:semana|setmana)\s+(?:que ...|próxima|...) at q
RestoSemanaTras(s, q) ==
  /\ q # 0
  /\ \/ RestoSemana(s, Spaces1(s, Lit(s, Spaces1(s, Lit(s, q, "de")), "la")))
     \/ RestoSemana(s, q)

\* \s+(?:de\s+la\s+)?(?:semana|setmana)\s+(?:que\s+(?:viene|ve)|próxima|...)
RestoSemanaQueViene1(s, p) == RestoSemanaTras(s, Spaces1(s, p))

\* \s+(?:próxima|...|següent)\s+(?:semana|setmana)
RestoSemanaQueViene2(s, p) ==
  Alt(s, Spaces1(s, Alt(s, Spaces1(s, p), siguientes)), <<"semana", "setmana">>) # 0

\* \s+que\s+(viene|ve)
RestoQueViene(s, p) ==
  Alt(s, Spaces1(s, Lit(s, Spaces1(s, p), "que")), <<"viene", "ve">>) # 0

\* what follows the weekday in the pattern named resto
RestoDia(resto, s, p) ==
  CASE resto = "matchSemanaQueViene1" -> RestoSemanaQueViene1(s, p)
    [] resto = "matchSemanaQueViene2" -> RestoSemanaQueViene2(s, p)
    [] resto = "matchQueViene" -> RestoQueViene(s, p)

\* the least position of a set of positions
Primera(P) == CHOOSE x \in P : \A y \in P : x <= y

\* the first weekday of the alternation that occurs at i
DiaEn(s, i) == nombresDia[CHOOSE k \in 1..Len(nombresDia) : HasAt(s, nombresDia[k], i)]

\* where  (<weekday>)<resto>  matches
PosicionesDia(s, resto) ==
  {i \in 1..Len(s) :
     \E k \in 1..Len(nombresDia) :
       HasAt(s, nombresDia[k], i) /\ RestoDia(resto, s, i + Len(nombresDia[k]))}

\* the weekday at the leftmost of the positions P ("" when there is none)
DiaCapturado(s, P) == IF P = {} THEN "" ELSE DiaEn(s, Primera(P))

\* the weekday captured by the leftmost match of  (?:el\s+)?(<weekday>)<resto>
\* ("" when there is no match); the optional article never changes which
\* weekday the leftmost match holds
CapturaDia(s, resto) == DiaCapturado(s, PosicionesDia(s, resto))

\* the position after  w1\s+w2\s+w3\s+w4\s+  at i
DesdeHora(s, i, w1, w2, w3, w4) ==
  Spaces1(s, Lit(s, Spaces1(s, Lit(s, Spaces1(s, Lit(s, Spaces1(s,
    Lit(s, i, w1)), w2)), w3)), w4))

\* where  w1\s+w2\s+w3\s+w4\s+(\d+)  matches
PosicionesHora(s, w1, w2, w3, w4) ==
  {i \in 1..Len(s) : Digits1(s, DesdeHora(s, i, w1, w2, w3, w4)) # 0}

\* the run of digits that starts at d
DigitosDesde(s, d) == SubSeq(s, d, Digits1(s, d) - 1)

\* the digits after the leftmost of the positions P ("" when there is none)
HoraCapturada(s, P, w1, w2, w3, w4) ==
  IF P = {} THEN "" ELSE DigitosDesde(s, DesdeHora(s, Primera(P), w1, w2, w3, w4))

\* the digits captured by the leftmost match of  w1\s+w2\s+w3\s+w4\s+(\d+)
\* ("" when there is no match)
CapturaHora(s, w1, w2, w3, w4) ==
  HoraCapturada(s, PosicionesHora(s, w1, w2, w3, w4), w1, w2, w3, w4)

\* variant of diasSemanaQueViene without the "|| 7": on a Monday the week
\* after the current one is taken to begin today; C7 tells it from the rule
diasSemanaQueViene_sinSiete(diaObjetivo, hoyDiaSemana) ==
  ((8 - hoyDiaSemana) % 7) + ((diaObjetivo - 1) % 7)

\* days to the named weekday of the week after the current one
diasSemanaQueViene(diaObjetivo, hoyDiaSemana) ==
  LET resto == (8 - hoyDiaSemana) % 7
      diasHastaLunesProxima == IF resto = 0 THEN 7 ELSE resto
      diasDesdeLunes == (diaObjetivo - 1) % 7
  IN diasHastaLunesProxima + diasDesdeLunes

\* variant of diasQueViene that does not skip the weekend on a Friday; C8
\* tells it from the rule
diasQueViene_sinSaltarFinde(diaObjetivo, hoyDiaSemana) ==
  LET diff == diaObjetivo - hoyDiaSemana
  IN IF diff <= 0 THEN diff + 7 ELSE diff

\* days to the next occurrence of the named weekday, skipping the weekend
\* when today is Friday
diasQueViene(diaObjetivo, hoyDiaSemana) ==
  LET diff == diaObjetivo - hoyDiaSemana
      diasSumar == IF diff <= 0 THEN diff + 7 ELSE diff
  IN IF hoyDiaSemana = 5 /\ diasSumar <= 2 THEN 3 ELSE diasSumar

\* the hour the pattern rules give a weekday phrase
HoraPatron == 14

\* rule 4 is tried before rule 3
elegirRegla_queVienePrimero(horaEs, horaCa, pasadoManana, semana1, semana2, queViene) ==
  CASE horaEs # "" -> [regla |-> 1, horaNum |-> parseInt(horaEs), diaObjetivo |-> 0]
    [] horaCa # "" -> [regla |-> 1, horaNum |-> parseInt(horaCa), diaObjetivo |-> 0]
    [] pasadoManana -> [regla |-> 2, horaNum |-> 0, diaObjetivo |-> 0]
    [] queViene # "" -> [regla |-> 4, horaNum |-> 0, diaObjetivo |-> diasSemana(queViene)]
    [] semana1 # "" -> [regla |-> 3, horaNum |-> 0, diaObjetivo |-> diasSemana(semana1)]
    [] semana2 # "" -> [regla |-> 3, horaNum |-> 0, diaObjetivo |-> diasSemana(semana2)]
    [] OTHER -> [regla |-> 0, horaNum |-> 0, diaObjetivo |-> 0]

\* the rule of preprocesarExpresion that decides (0: none), with the hour rule
\* 1 captured and the weekday rules 3 and 4 captured, given what each of its
\* patterns captured
elegirRegla(horaEs, horaCa, pasadoManana, semana1, semana2, queViene) ==
  CASE horaEs # "" -> [regla |-> 1, horaNum |-> parseInt(horaEs), diaObjetivo |-> 0]
    [] horaCa # "" -> [regla |-> 1, horaNum |-> parseInt(horaCa), diaObjetivo |-> 0]
    [] pasadoManana -> [regla |-> 2, horaNum |-> 0, diaObjetivo |-> 0]
    [] semana1 # "" -> [regla |-> 3, horaNum |-> 0, diaObjetivo |-> diasSemana(semana1)]
    [] semana2 # "" -> [regla |-> 3, horaNum |-> 0, diaObjetivo |-> diasSemana(semana2)]
    [] queViene # "" -> [regla |-> 4, horaNum |-> 0, diaObjetivo |-> diasSemana(queViene)]
    [] OTHER -> [regla |-> 0, horaNum |-> 0, diaObjetivo |-> 0]

\* the patterns of preprocesarExpresion on the lower-cased, trimmed text
\* normalizada and, for the /i patterns of rule 1, on the text as given, cruda
patronesEn(snap, normalizada, cruda) ==
  elegirRegla(CapturaHora(cruda, "pasado", "mañana", "a", "las"),
              CapturaHora(cruda, "demà", "passat", "a", "les"),
              Includes(normalizada, "pasado mañana") \/ Includes(normalizada, "demà passat"),
              IF snap = "part_002" THEN CapturaDia(normalizada, "matchSemanaQueViene1")
              ELSE "",
              IF snap = "part_002" THEN CapturaDia(normalizada, "matchSemanaQueViene2")
              ELSE "",
              CapturaDia(normalizada, "matchQueViene"))

analizarPatron(snap, expresion) ==
  patronesEn(snap, trim(toLowerCase(expresion)), toLowerCase(expresion))

patrones == [snap \in {"server.js", "part_002"} |->
               [e \in Expresiones |-> analizarPatron(snap, e)]]

\* which rule of preprocesarExpresion decides the expression (0: none)
reglaPatron(snap, expresion) == patrones[snap][expresion].regla

\* the date the deciding rule m gives for the reference ref (null: no rule)
aplicarPatron(m, ref) ==
  CASE m.regla = 1 -> setHourMinute(plusDays(ref, 2), m.horaNum, 0)
    [] m.regla = 2 -> plusDays(ref, 2)
    [] m.regla = 3 ->
         setHourMinute(plusDays(ref, diasSemanaQueViene(m.diaObjetivo, weekday(ref))),
                       HoraPatron, 0)
    [] m.regla = 4 ->
         setHourMinute(plusDays(ref, diasQueViene(m.diaObjetivo, weekday(ref))),
                       HoraPatron, 0)
    [] OTHER -> null

\* preprocesarExpresion(expresion, fechaReferencia); the reference is read in
\* the system's local zone (DateTime.fromJSDate without a zone)
preprocesarExpresion(snap, local, expresion, fechaReferencia) ==
  aplicarPatron(patrones[snap][expresion], fromJSDate(fechaReferencia, local))

(***************************************************************************)
(* RuleCorrector: validarYCorregirFecha.                                   *)
(***************************************************************************)
\* /(?:en|dentro de|dins de)\s+(\d+)\s+d[ií]as?/
MatchEnNDias(s) ==
  \E i \in 1..Len(s) :
    Alt(s, Spaces1(s, Digits1(s, Spaces1(s, Alt(s, i, <<"en", "dentro de", "dins de">>)))),
        <<"dia", "día">>) # 0

\* /par\s+de\s+d[ií]as?/
MatchParDeDias(s) ==
  \E i \in 1..Len(s) :
    Alt(s, Spaces1(s, Lit(s, Spaces1(s, Lit(s, i, "par")), "de")), <<"dia", "día">>) # 0

esConteoDias(normalizada) ==
  \/ MatchEnNDias(normalizada)
  \/ Includes(normalizada, "pasado mañana")
  \/ Includes(normalizada, "demà passat")
  \/ MatchParDeDias(normalizada)

\* the weekday alternation of the corrector
nombresDiaCorrector ==
  << "lunes", "martes", "miércoles", "jueves", "viernes", "sábado", "domingo",
     "dilluns", "dimarts", "dimecres", "dijous", "divendres", "dissabte", "diumenge" >>

\* \s+(lunes|martes|...) after the article
RestoDiaCorrector(s, p) == Alt(s, Spaces1(s, p), nombresDiaCorrector) # 0

articulos == << "el", "la", "els", "les" >>

\* /(?:el|la|els|les)\s+(lunes|martes|miércoles|jueves|...|diumenge)/
esDiaSemanaEspecifico(normalizada) ==
  \E i \in 1..Len(normalizada), k \in 1..Len(articulos) :
    /\ HasAt(normalizada, articulos[k], i)
    /\ RestoDiaCorrector(normalizada, i + Len(articulos[k]))

\* /\d+\s*(h|horas?|hrs?|m|minutos?)/
MatchHoraExplicita(s) ==
  \E i \in 1..Len(s) :
    Alt(s, Spaces0(s, Digits1(s, i)),
        <<"h", "horas", "hora", "hrs", "hr", "m", "minutos", "minuto">>) # 0

\* \s+7\b after the article
Resto7(s, p) == WordEnd(s, Lit(s, Spaces1(s, p), "7")) # 0

lasLes == << "las", "la", "les", "le" >>

\* /a\s+(las?|les?)\s+7\b/
matchHora7(normalizada) ==
  \E i \in 1..Len(normalizada), k \in 1..Len(lasLes) :
    LET p == Spaces1(normalizada, Lit(normalizada, i, "a"))
    IN /\ p # 0
       /\ HasAt(normalizada, lasLes[k], p)
       /\ Resto7(normalizada, p + Len(lasLes[k]))

\* /7\s*(am|a\.m\.|de la mañana)/
Match7AM(s) ==
  \E i \in 1..Len(s) :
    Alt(s, Spaces0(s, Lit(s, i, "7")), <<"am", "a.m.", "de la mañana">>) # 0

\* what the corrector reads in the text of an expression
rasgosDe(expresion) ==
  LET normalizada == toLowerCase(expresion)
  IN [esConteoDias |-> esConteoDias(normalizada),
      esDiaSemanaEspecifico |-> esDiaSemanaEspecifico(normalizada),
      horaExplicita |-> MatchHoraExplicita(normalizada),
      matchHora7 |-> matchHora7(normalizada),
      am |-> Match7AM(normalizada)]

rasgos == [e \in Expresiones |-> rasgosDe(e)]

\* days from today's weekday to the next occurrence of the candidate's
diasHastaProximo(diaSemana, hoyDiaSemana) ==
  LET diasSumar == diaSemana - hoyDiaSemana
  IN IF diasSumar <= 0 THEN diasSumar + 7 ELSE diasSumar

\* src/server.js: a past candidate is always moved, past the weekend on a Friday
corregirPasada_server(f, ref) ==
  LET hoyDiaSemana == weekday(ref)
      d == diasHastaProximo(weekday(f), hoyDiaSemana)
      diasSumar == IF hoyDiaSemana = 5 /\ d <= 2 THEN 3 ELSE d
  IN IF f.ts < ref.ts
     THEN setHourMinute(plusDays(ref, diasSumar), hour(f), minute(f))
     ELSE f

\* part_002: only an article + weekday expression that is no day count
corregirPasada_part002(f, ref, r) ==
  IF /\ f.ts < ref.ts
     /\ r.esDiaSemanaEspecifico
     /\ ~r.esConteoDias
  THEN setHourMinute(plusDays(ref, diasHastaProximo(weekday(f), weekday(ref))),
                     hour(f), minute(f))
  ELSE f

\* the hour given to a candidate without a time of day
horaPorDefecto(snap) == IF snap = "server.js" THEN 14 ELSE 12

\* the default hour is given without looking at the expression
asignarHoraPorDefecto_sinPatron(snap, f, r) ==
  IF hour(f) = 0 /\ minute(f) = 0
  THEN setHourMinute(f, horaPorDefecto(snap), 0)
  ELSE f

asignarHoraPorDefecto(snap, f, r) ==
  IF hour(f) = 0 /\ minute(f) = 0 /\ ~r.horaExplicita
  THEN setHourMinute(f, horaPorDefecto(snap), 0)
  ELSE f

desambiguarHora7(snap, f, r) ==
  IF /\ r.matchHora7
     /\ hour(f) = 7
     /\ (snap = "part_002" => ~r.am)
  THEN setHour(f, 19)
  ELSE f

\* the morning hours are moved on Fridays too
horarioManana_tambienViernes(snap, f) ==
  IF snap = "server.js" /\ hour(f) >= 10 /\ hour(f) < 14
  THEN setHour(f, 14)
  ELSE f

\* src/server.js only: 10:00-13:59 is kept on a Friday alone
horarioManana(snap, f) ==
  IF snap = "server.js" /\ weekday(f) # 5 /\ hour(f) >= 10 /\ hour(f) < 14
  THEN setHour(f, 14)
  ELSE f

\* the rules of validarYCorregirFecha in their order, for the reference ref
\* and what the patterns found in the expression, r
corregir(snap, f, ref, r) ==
  horarioManana(snap,
    desambiguarHora7(snap,
      asignarHoraPorDefecto(snap,
        IF snap = "server.js" THEN corregirPasada_server(f, ref)
        ELSE corregirPasada_part002(f, ref, r),
        r),
      r))

\* validarYCorregirFecha(fecha, fechaReferencia, expresion); the reference is
\* read in the system's local zone
validarYCorregirFecha(snap, local, f, fechaReferencia, expresion) ==
  corregir(snap, f, fromJSDate(fechaReferencia, local), rasgos[expresion])

(***************************************************************************)
(* FallbackResolver: what parsearConOpenAI makes of the model's reply.     *)
(* A reply is [tipo, comillas, ts]: the call throws ("throw"), or the      *)
(* content is empty ("vacio"), the sentinel word ("sin_definir"), an ISO   *)
(* date-time of instant ts ("iso") or some other text ("otro"); comillas   *)
(* says that the model wrapped the content in quotes.                      *)
(***************************************************************************)
sinDefinir == [sin_definir |-> TRUE]

parsearConOpenAI(snap, cliente, reply, zonaHoraria) ==
  CASE ~cliente -> null
    [] reply.tipo = "throw" -> null
    [] reply.tipo = "vacio" /\ ~reply.comillas ->
         IF snap = "part_002" THEN sinDefinir ELSE null
    [] snap = "part_002" /\ reply.tipo = "sin_definir" /\ ~reply.comillas -> sinDefinir
    [] reply.tipo = "iso" -> [ts |-> reply.ts, zone |-> zonaHoraria]
    [] OTHER -> null

esFecha(r) == r # null /\ r # sinDefinir

(***************************************************************************)
(* ResultAssembler and the responses of POST /parse-fecha.                 *)
(***************************************************************************)
\* toFormat("cccc") in the locales "es" and "ca"
nombreDia(locale, wd) ==
  IF locale = "ca"
  THEN <<"dilluns", "dimarts", "dimecres", "dijous", "divendres", "dissabte", "diumenge">>[wd]
  ELSE <<"lunes", "martes", "miércoles", "jueves", "viernes", "sábado", "domingo">>[wd]

\* the weekend names of Spanish only, whatever the language
diasFinde_soloCastellano(idioma) == <<"sábado", "domingo">>

diasFinde(idioma) ==
  IF idioma = "ca" THEN <<"dissabte", "diumenge", "sábado", "domingo">>
  ELSE <<"sábado", "domingo">>

\* toFormat("yyyy-MM-dd"): the calendar date in the DateTime's zone
toFormatFecha(dt) == day(dt)
\* toFormat("HH:mm")
toFormatHora(dt) == <<hour(dt), minute(dt)>>
\* toISO(): the local date and time followed by the DateTime's offset
toISO(dt) == [fecha |-> day(dt), hora |-> hour(dt), minuto |-> minute(dt), offset |-> dt.zone]
\* DateTime.fromISO(iso, {zone}): the instant the string names, put in zone
fromISO(iso, zone) ==
  [ts |-> iso.fecha * MinPerDay + iso.hora * 60 + iso.minuto - iso.offset * 60, zone |-> zone]

respuestaResuelta(f, ref, expresion) ==
  LET idioma == idiomas[expresion]
      locale == IF idioma = "ca" THEN "ca" ELSE "es"
      dia_semana == nombreDia(locale, weekday(f))
      finde == diasFinde(idioma)
  IN [status |-> 200,
      fecha_resuelta |-> toFormatFecha(f),
      dia_semana |-> dia_semana,
      hora |-> toFormatHora(f),
      iso_datetime |-> toISO(f),
      es_finde |-> \E k \in 1..Len(finde) :
                     Includes(toLowerCase(dia_semana), toLowerCase(finde[k])),
      es_pasado |-> f.ts < ref.ts]

respuestaSinDefinir ==
  [status |-> 200, fecha_resuelta |-> "sin_definir", dia_semana |-> "sin_definir",
   hora |-> "sin_definir", iso_datetime |-> "sin_definir",
   es_finde |-> FALSE, es_pasado |-> FALSE]

respuestaError(status, mensaje) == [status |-> status, error |-> TRUE, mensaje |-> mensaje]

(***************************************************************************)
(* Inputs.                                                                 *)
(***************************************************************************)
Snapshots == {"server.js", "part_002"}

\* offsets of the request's zona_horaria and of the server's local zone
Zonas == {0, 1}
ZonasLocales == {0, 1}

\* the first reference day is a Monday, late enough for every candidate
BaseDay == 2 * 7
\* times of day (UTC) of the reference instants: 09:00 and 23:30
RefTimes == {9 * 60, 23 * 60 + 30}

Referencias ==
  {[tipo |-> "missing", ts |-> 0], [tipo |-> "invalid", ts |-> 0]} \cup
  {[tipo |-> "iso", ts |-> d * MinPerDay + t] :
     d \in BaseDay..(BaseDay + NumRefDays - 1), t \in RefTimes}

\* times of day of the external parser's candidates: 00:00, 00:30, 07:00, 11:30
CandTimes == {0, 30, 7 * 60, 11 * 60 + 30}

\* what chrono.es.parseDate may give: nothing, an exception, or a Date
ChronoResults(ref) ==
  IF ref = null THEN {}
  ELSE
  {[tipo |-> "none", ts |-> 0], [tipo |-> "throw", ts |-> 0]} \cup
  {[tipo |-> "date", ts |-> (day(ref) + d) * MinPerDay + t - ref.zone * 60] :
     d \in (0 - MaxBack)..MaxFwd, t \in CandTimes}

\* what the model may answer to the translation
Traducciones == {"texto", "vacio", "throw"}

\* what the model may answer to the date fallback
ModelReplies(ref) ==
  IF ref = null THEN {}
  ELSE
  {[tipo |-> k, comillas |-> FALSE, ts |-> 0] : k \in {"throw", "vacio", "sin_definir", "otro"}}
  \cup {[tipo |-> "sin_definir", comillas |-> TRUE, ts |-> 0]}
  \cup {[tipo |-> "iso", comillas |-> FALSE, ts |-> t] :
          t \in {ref.ts - MinPerDay, ref.ts + MinPerDay}}
  \cup {[tipo |-> "iso", comillas |-> TRUE, ts |-> ref.ts + MinPerDay]}

(***************************************************************************)
(* State.                                                                  *)
(*   snapshot, openai, localZone  the program, whether OPENAI_API_KEY is   *)
(*                                set, the offset of the system's zone     *)
(*   pc         where the handler of the current request stands            *)
(*   req        the body of the request                                    *)
(*   refDate    the handler's refDate                                      *)
(*   parsed     the parser's candidate, in the request's zone              *)
(*   corregida  what validarYCorregirFecha returned for it                 *)
(*   fecha      the handler's fecha                                        *)
(*   etapa      how the request ended: "validation", "undefined",          *)
(*              "pattern", "parser", "corrected", "fallback",              *)
(*              "unresolved" or "unexpected"                               *)
(*   res        the response: its status and its JSON body                 *)
(*   calls      how often the request has called each collaborator         *)
(*   llm        what the model answered to the request: to the translation *)
(*              ("texto", "vacio" or "throw") and to the date fallback     *)
(*   previa     an earlier request that an observer of the service has     *)
(*              noted down with its response; the handler never reads it   *)
(***************************************************************************)
NoReq == [referencia |-> [tipo |-> "missing", ts |-> 0], expresion_usuario |-> "",
          zona_horaria |-> 0]
NoRes == [status |-> 0]
NoCalls == [clasificador |-> 0, preprocesador |-> 0, chrono |-> 0, traduccion |-> 0,
            corrector |-> 0, fallback |-> 0]
NoReply == [tipo |-> "no", comillas |-> FALSE, ts |-> 0]
NoLlm == [traduccion |-> "no", fallback |-> NoReply]
NoPrevia == [hay |-> FALSE]

Init ==
  /\ snapshot \in Snapshots
  /\ openai \in BOOLEAN
  /\ localZone \in ZonasLocales
  /\ pc = "idle"
  /\ req = NoReq
  /\ refDate = null
  /\ parsed = null
  /\ corregida = null
  /\ fecha = null
  /\ etapa = ""
  /\ res = NoRes
  /\ calls = NoCalls
  /\ llm = NoLlm
  /\ previa = NoPrevia

Config == <<snapshot, openai, localZone>>

\* res.status(...).json(...): the request is answered
Responder(e, r, f) ==
  /\ pc' = "done"
  /\ etapa' = e
  /\ res' = r
  /\ fecha' = f

\* the request goes on to the next step
Seguir(p) ==
  /\ pc' = p
  /\ UNCHANGED <<etapa, res, fecha>>

(***************************************************************************)
(* POST /parse-fecha up to the first call of the external parser.          *)
(***************************************************************************)
\* the pattern rules gave preprocesado for the reference ref: answer with it,
\* or go on to the parser when it is null
Preprocesado(ref, expresion_usuario, preprocesado) ==
  /\ refDate' = ref
  /\ calls' = [calls EXCEPT
                 !.clasificador = IF snapshot = "part_002" THEN 1 ELSE 0,
                 !.preprocesador = 1]
  /\ IF preprocesado # null
     THEN Responder("pattern", respuestaResuelta(preprocesado, ref, expresion_usuario),
                    preprocesado)
     ELSE Seguir("chrono")

Request(referencia, expresion_usuario, zona_horaria) ==
  /\ pc = "idle"
  /\ req' = [referencia |-> referencia, expresion_usuario |-> expresion_usuario,
             zona_horaria |-> zona_horaria]
  /\ UNCHANGED <<Config, parsed, corregida, llm, previa>>
  /\ IF referencia.tipo = "missing" \/ expresion_usuario = ""
     THEN /\ Responder("validation",
                       respuestaError(400, "Faltan parámetros requeridos: referencia y expresion_usuario."),
                       null)
          /\ UNCHANGED <<refDate, calls>>
     ELSE IF snapshot = "part_002" /\ ~clasificacion[expresion_usuario]
     THEN /\ Responder("undefined", respuestaSinDefinir, null)
          /\ calls' = [calls EXCEPT !.clasificador = 1]
          /\ UNCHANGED refDate
     ELSE IF referencia.tipo = "invalid"
     THEN /\ Responder("validation", respuestaError(400, "Referencia inválida."), null)
          /\ calls' = [calls EXCEPT !.clasificador = IF snapshot = "part_002" THEN 1 ELSE 0]
          /\ UNCHANGED refDate
     ELSE Preprocesado([ts |-> referencia.ts, zone |-> zona_horaria], expresion_usuario,
                       preprocesarExpresion(snapshot, localZone, expresion_usuario,
                                            referencia.ts))

(***************************************************************************)
(* BaseParserAdapter: the calls of chrono.es.parseDate.                    *)
(***************************************************************************)
\* the Catalan words of the fixed substitution table that the table changes
traducciones ==
  << "dilluns", "dimarts", "dimecres", "dijous", "divendres", "dissabte", "diumenge",
     "avui", "demà", "ahir", "setmana", "any" >>

\* expresionTraducida !== expresion_usuario ("mes" is replaced by itself,
\* so it changes the text only where its case differs)
traduccionManualCambia(expresion) ==
  \/ SomeIncluded(toLowerCase(expresion), traducciones)
  \/ \E i \in 1..Len(expresion) :
       HasAt(toLowerCase(expresion), "mes", i) /\ ~HasAt(expresion, "mes", i)

cambiaTraduccion == [e \in Expresiones |-> traduccionManualCambia(e)]

\* the double check does not ask whether a model is configured
Corregida_sinCliente(f0, f1) ==
  /\ parsed' = f0
  /\ corregida' = f1
  /\ calls' = [calls EXCEPT !.chrono = @ + 1, !.corrector = @ + 1]
  /\ IF f1.ts < refDate.ts
     THEN /\ pc' = "doble_check"
          /\ fecha' = f1
          /\ UNCHANGED <<etapa, res>>
     ELSE Responder(IF f1 = f0 THEN "parser" ELSE "corrected",
                    respuestaResuelta(f1, refDate, req.expresion_usuario), f1)

\* the candidate f0 has been corrected to f1: answer, or double-check a date
\* that is still before the reference
Corregida(f0, f1) ==
  /\ parsed' = f0
  /\ corregida' = f1
  /\ calls' = [calls EXCEPT !.chrono = @ + 1, !.corrector = @ + 1]
  /\ IF f1.ts < refDate.ts /\ openai
     THEN /\ pc' = "doble_check"
          /\ fecha' = f1
          /\ UNCHANGED <<etapa, res>>
     ELSE Responder(IF f1 = f0 THEN "parser" ELSE "corrected",
                    respuestaResuelta(f1, refDate, req.expresion_usuario), f1)

\* fecha = DateTime.fromJSDate(parsed, {zone}), then validarYCorregirFecha
Candidata(f0) ==
  Corregida(f0, validarYCorregirFecha(snapshot, localZone, f0, toJSDate(refDate),
                                      req.expresion_usuario))

\* the handler keeps the zona_horaria of the request the observer noted down
Parsed_zonaPrevia(c) ==
  Candidata(fromJSDate(c.ts, IF previa.hay THEN previa.req.zona_horaria
                             ELSE req.zona_horaria))

\* the parser gave the Date c
Parsed(c) == Candidata(fromJSDate(c.ts, req.zona_horaria))

\* an exception of the parser reaches the handler's catch
ChronoThrows ==
  /\ calls' = [calls EXCEPT !.chrono = @ + 1]
  /\ Responder("unexpected", respuestaError(500, "err.message"), null)
  /\ UNCHANGED <<parsed, corregida>>

\* the parser gave nothing: go on at p
ChronoNone(p) ==
  /\ calls' = [calls EXCEPT !.chrono = @ + 1]
  /\ Seguir(p)
  /\ UNCHANGED <<parsed, corregida>>

\* chrono.es.parseDate(expresion_usuario, refDateJS)
ChronoDirecto(c) ==
  /\ pc = "chrono"
  /\ UNCHANGED <<Config, req, refDate, llm, previa>>
  /\ CASE c.tipo = "date" -> Parsed(c)
       [] c.tipo = "throw" -> ChronoThrows
       [] OTHER ->
            IF idiomas[req.expresion_usuario] = "ca"
            THEN IF cambiaTraduccion[req.expresion_usuario]
                 THEN ChronoNone("chrono_manual")
                 ELSE IF openai THEN ChronoNone("traducir") ELSE ChronoNone("fallback")
            ELSE ChronoNone("fallback")

\* the translation is requested whether a model is configured or not
ChronoManual_sinCliente(c) ==
  /\ pc = "chrono_manual"
  /\ UNCHANGED <<Config, req, refDate, llm, previa>>
  /\ CASE c.tipo = "date" -> Parsed(c)
       [] c.tipo = "throw" -> ChronoThrows
       [] OTHER -> ChronoNone("traducir")

\* chrono.es.parseDate(expresionTraducida, refDateJS)
ChronoManual(c) ==
  /\ pc = "chrono_manual"
  /\ UNCHANGED <<Config, req, refDate, llm, previa>>
  /\ CASE c.tipo = "date" -> Parsed(c)
       [] c.tipo = "throw" -> ChronoThrows
       [] OTHER -> IF openai THEN ChronoNone("traducir") ELSE ChronoNone("fallback")

\* await traducirCatalanaEspanol(expresion_usuario): a text ("texto"), or
\* null when the content is empty ("vacio") or the call throws ("throw")
Traducir(t) ==
  /\ pc = "traducir"
  /\ UNCHANGED <<Config, req, refDate, parsed, corregida, previa>>
  /\ calls' = [calls EXCEPT !.traduccion = @ + 1]
  /\ llm' = [llm EXCEPT !.traduccion = t]
  /\ Seguir(IF t = "texto" THEN "chrono_traduccion" ELSE "fallback")

\* chrono.es.parseDate(traduccion, refDateJS)
ChronoTraduccion(c) ==
  /\ pc = "chrono_traduccion"
  /\ UNCHANGED <<Config, req, refDate, llm, previa>>
  /\ CASE c.tipo = "date" -> Parsed(c)
       [] c.tipo = "throw" -> ChronoThrows
       [] OTHER -> ChronoNone("fallback")

(***************************************************************************)
(* The two uses of the model fallback.                                     *)
(***************************************************************************)
\* the handler answers with the sentinel whenever the fallback gave no date
Fallback_nullSinDefinir(reply) ==
  /\ pc = "fallback"
  /\ UNCHANGED <<Config, req, refDate, parsed, corregida, previa>>
  /\ calls' = [calls EXCEPT !.fallback = IF openai THEN @ + 1 ELSE @]
  /\ llm' = IF openai THEN [llm EXCEPT !.fallback = reply] ELSE llm
  /\ LET fechaOpenAI == parsearConOpenAI(snapshot, openai, reply, req.zona_horaria)
     IN IF esFecha(fechaOpenAI)
        THEN Responder("fallback",
                       respuestaResuelta(fechaOpenAI, refDate, req.expresion_usuario),
                       fechaOpenAI)
        ELSE Responder("undefined", respuestaSinDefinir, null)

\* if (!parsed): await parsearConOpenAI(...)
Fallback(reply) ==
  /\ pc = "fallback"
  /\ UNCHANGED <<Config, req, refDate, parsed, corregida, previa>>
  /\ calls' = [calls EXCEPT !.fallback = IF openai THEN @ + 1 ELSE @]
  /\ llm' = IF openai THEN [llm EXCEPT !.fallback = reply] ELSE llm
  /\ LET fechaOpenAI == parsearConOpenAI(snapshot, openai, reply, req.zona_horaria)
     IN CASE fechaOpenAI = sinDefinir -> Responder("undefined", respuestaSinDefinir, null)
          [] fechaOpenAI = null ->
               Responder("unresolved",
                         respuestaError(200, "No se pudo interpretar la fecha."), null)
          [] OTHER ->
               Responder("fallback",
                         respuestaResuelta(fechaOpenAI, refDate, req.expresion_usuario),
                         fechaOpenAI)

\* if (fecha < refDate && openai): await parsearConOpenAI(...)
DobleCheck(reply) ==
  /\ pc = "doble_check"
  /\ UNCHANGED <<Config, req, refDate, parsed, corregida, previa>>
  /\ calls' = [calls EXCEPT !.fallback = @ + 1]
  /\ llm' = [llm EXCEPT !.fallback = reply]
  /\ LET fechaOpenAI == parsearConOpenAI(snapshot, openai, reply, req.zona_horaria)
     IN IF esFecha(fechaOpenAI) /\ fechaOpenAI.ts >= refDate.ts
        THEN Responder("fallback",
                       respuestaResuelta(fechaOpenAI, refDate, req.expresion_usuario),
                       fechaOpenAI)
        ELSE Responder(IF corregida = parsed THEN "parser" ELSE "corrected",
                       respuestaResuelta(fecha, refDate, req.expresion_usuario), fecha)

\* the next request finds nothing of the previous one
NextRequest ==
  /\ pc = "done"
  /\ pc' = "idle"
  /\ req' = NoReq
  /\ refDate' = null
  /\ parsed' = null
  /\ corregida' = null
  /\ fecha' = null
  /\ etapa' = ""
  /\ res' = NoRes
  /\ calls' = NoCalls
  /\ llm' = NoLlm
  /\ UNCHANGED <<Config, previa>>

Next ==
  \/ pc = "idle" /\ \E r \in Referencias, e \in Expresiones, z \in Zonas : Request(r, e, z)
  \/ pc = "chrono" /\ \E c \in ChronoResults(refDate) : ChronoDirecto(c)
  \/ pc = "chrono_manual" /\ \E c \in ChronoResults(refDate) : ChronoManual(c)
  \/ pc = "traducir" /\ \E t \in Traducciones : Traducir(t)
  \/ pc = "chrono_traduccion" /\ \E c \in ChronoResults(refDate) : ChronoTraduccion(c)
  \/ pc = "fallback" /\ \E m \in ModelReplies(refDate) : Fallback(m)
  \/ pc = "doble_check" /\ \E m \in ModelReplies(refDate) : DobleCheck(m)
  \/ NextRequest

Spec == Init /\ [][Next]_vars

(***************************************************************************)
(* The service with an observer that notes down one answered request and   *)
(* its response, and may replace the note by a later one.  Only requests   *)
(* that the parser did not abort and that involved no model call are       *)
(* noted.  The requests come from a smaller set, so that the same request  *)
(* is seen again after every other one.                                    *)
(***************************************************************************)
ReferenciasDet ==
  {[tipo |-> "invalid", ts |-> 0]} \cup
  {[tipo |-> "iso", ts |-> d * MinPerDay + t] :
     d \in {BaseDay + 2, BaseDay + 4}, t \in {9 * 60}}

ExpresionesDet == {"hola", "pasado mañana", "el viernes", "dijous a les 7"}

\* candidates of the parser: nothing, an exception, the day before the
\* reference at 00:00 and at 11:30
ChronoDet(ref) ==
  IF ref = null THEN {}
  ELSE
  {[tipo |-> "none", ts |-> 0], [tipo |-> "throw", ts |-> 0]} \cup
  {[tipo |-> "date", ts |-> (day(ref) - 1) * MinPerDay + t - ref.zone * 60] :
     t \in {0, 11 * 60 + 30}}

\* what an observer can tell two requests apart by: the body and what the
\* parser returned in how many attempts
Clave ==
  [req |-> req,
   parsed |-> IF parsed = null THEN {} ELSE {toJSDate(parsed)},
   intentos |-> calls.chrono]

\* the response has been sent; the observer notes the request down
Recordar ==
  /\ pc = "done"
  /\ llm = NoLlm
  /\ etapa # "unexpected"
  /\ previa' = [hay |-> TRUE, req |-> req, clave |-> Clave, res |-> res]
  /\ pc' = "idle"
  /\ req' = NoReq
  /\ refDate' = null
  /\ parsed' = null
  /\ corregida' = null
  /\ fecha' = null
  /\ etapa' = ""
  /\ res' = NoRes
  /\ calls' = NoCalls
  /\ llm' = NoLlm
  /\ UNCHANGED Config

NextDet ==
  \/ pc = "idle" /\ \E r \in ReferenciasDet, e \in ExpresionesDet, z \in Zonas :
                       Request(r, e, z)
  \/ pc = "chrono" /\ \E c \in ChronoDet(refDate) : ChronoDirecto(c)
  \/ pc = "chrono_manual" /\ \E c \in ChronoDet(refDate) : ChronoManual(c)
  \/ pc = "traducir" /\ \E t \in Traducciones : Traducir(t)
  \/ pc = "chrono_traduccion" /\ \E c \in ChronoDet(refDate) : ChronoTraduccion(c)
  \/ pc = "fallback" /\ \E m \in ModelReplies(refDate) : Fallback(m)
  \/ pc = "doble_check" /\ \E m \in ModelReplies(refDate) : DobleCheck(m)
  \/ NextRequest
  \/ Recordar

SpecDet == Init /\ [][NextDet]_vars

(***************************************************************************)
(* What the properties below read in a state.                              *)
(***************************************************************************)
\* the request has been answered with a resolved date
Resuelta == pc = "done" /\ etapa \in {"pattern", "parser", "corrected", "fallback"}

\* the resolved date comes from the pattern rules or from a candidate of the
\* external parser
DeCandidato == Resuelta /\ (etapa = "pattern" \/ parsed # null)

\* the expressions that name a weekday
NombraDiaSemana == [e \in Expresiones |-> SomeIncluded(toLowerCase(e), nombresDia)]

\* the expressions that hold no temporal keyword and are a greeting or
\* courtesy, alone or followed by one of . ! ?
SoloSaludoSinTemporal ==
  [e \in Expresiones |->
     LET n == trim(toLowerCase(e))
     IN /\ \A k \in 1..Len(palabrasTemporales) : ~Includes(n, palabrasTemporales[k])
        /\ \E k \in 1..Len(soloSaludos), p \in {"", ".", "!", "?"} :
             n = soloSaludos[k] \o p]

(***************************************************************************)
(* C1. For an expression that names a weekday, whatever candidate the      *)
(* external parser gives for it, a resolved date is never before the       *)
(* reference date, and so es_pasado is false.                              *)
(* Violated: in part_002 the past-date correction needs an article before  *)
(* the weekday and knows neither "sabado" nor "miercoles".                 *)
(***************************************************************************)
C1_NuncaPasado ==
  (DeCandidato /\ NombraDiaSemana[req.expresion_usuario]) =>
     /\ res.fecha_resuelta >= toFormatFecha(refDate)
     /\ ~res.es_pasado

(***************************************************************************)
(* C2. A request without referencia, without expresion_usuario or with a   *)
(* referencia that is no valid ISO date-time is answered 400 with          *)
(* error = true, and no stage of the pipeline answers it.                  *)
(* Violated: part_002 classifies the expression before it looks at the     *)
(* validity of referencia.                                                 *)
(***************************************************************************)
C2_Validacion ==
  (pc = "done" /\ (req.referencia.tipo # "iso" \/ req.expresion_usuario = "")) =>
     /\ etapa = "validation"
     /\ res.status = 400
     /\ res.error = TRUE

C4_Hora7 ==
  corregida # null =>
     LET r == rasgos[req.expresion_usuario]
         ambigua == r.matchHora7 /\ ~r.am
     IN /\ (ambigua /\ hour(parsed) = 7) => hour(corregida) = 19
        /\ (~ambigua /\ hour(parsed) = 7) => hour(corregida) = 7
        /\ hour(parsed) # 7 => hour(corregida) # 19

(***************************************************************************)
(* C5. A bare "pasado mañana" or "demà passat" resolves to the reference   *)
(* date plus two days, at the reference's time of day, both as read in the *)
(* request's zone, and es_pasado is false.                                 *)
(* Violated: preprocesarExpresion reads the reference in the system's      *)
(* local zone and the response is formatted in that zone.                  *)
(***************************************************************************)
C5_PasadoManana ==
  (pc = "done" /\ etapa = "pattern"
     /\ patrones[snapshot][req.expresion_usuario].regla = 2) =>
     /\ res.fecha_resuelta = day(refDate) + 2
     /\ res.hora = <<hour(refDate), minute(refDate)>>
     /\ ~res.es_pasado

(***************************************************************************)
(* C6. For an expression that is a relative day count the corrector never  *)
(* changes the candidate's calendar date: a candidate before the reference *)
(* is not moved forward and one on a weekend is not moved off it.          *)
(* Violated: src/server.js moves every past candidate, whatever the        *)
(* expression says.                                                        *)
(***************************************************************************)
C6_ConteoDias ==
  (corregida # null /\ rasgos[req.expresion_usuario].esConteoDias) =>
     day(corregida) = day(parsed)

\* the weekday an expression names (0 when it names none or several)
DiaNombrado ==
  [e \in Expresiones |->
     LET D == {diasSemana(nombresDia[k]) :
                 k \in {j \in 1..Len(nombresDia) : Includes(toLowerCase(e), nombresDia[j])}}
     IN IF Cardinality(D) = 1 THEN CHOOSE d \in D : TRUE ELSE 0]

\* the request has been answered by rule n of the pattern rules
PorRegla(n) ==
  pc = "done" /\ etapa = "pattern" /\ patrones[snapshot][req.expresion_usuario].regla = n

\* the reference as the pattern rules read it
RefPatron == fromJSDate(toJSDate(refDate), localZone)

C9_IdaYVuelta ==
  Resuelta =>
     LET dt == fromISO(res.iso_datetime, req.zona_horaria)
     IN /\ toFormatFecha(dt) = res.fecha_resuelta
        /\ toFormatHora(dt) = res.hora

\* the date rules 3 and 4 resolve for the request's expression one day later
UnDiaDespues ==
  preprocesarExpresion(snapshot, localZone, req.expresion_usuario,
                       toJSDate(refDate) + MinPerDay)

(***************************************************************************)
(* C10. For a weekday phrase of rules 3 and 4, the date resolved with the  *)
(* reference one day later is never earlier than the date resolved with    *)
(* the reference.                                                          *)
(* Violated: on a Friday rule 4 resolves a Sunday to the Monday after it,  *)
(* on the Saturday it resolves the same phrase to that Sunday.             *)
(***************************************************************************)
C10_Monotonia ==
  (PorRegla(3) \/ PorRegla(4)) => toFormatFecha(UnDiaDespues) >= res.fecha_resuelta

\* the answered request is the one noted down, and neither involved a model
\* call
MismaPeticion ==
  /\ pc = "done" /\ etapa # "unexpected" /\ llm = NoLlm
  /\ previa.hay /\ previa.clave = Clave

(***************************************************************************)
(* C11. Two requests with the same expresion_usuario, referencia and       *)
(* zona_horaria, for which the parser returned the same candidate and that *)
(* involved no model call, get the same response field by field, whatever  *)
(* requests were answered before the first one and between the two.        *)
(***************************************************************************)
C11_Determinismo ==
  MismaPeticion => res = previa.res

\* a corrected weekday request is answered a second time
C11_Witness ==
  /\ MismaPeticion
  /\ req.expresion_usuario = "el viernes"
  /\ etapa = "corrected"
  /\ res.fecha_resuelta # toFormatFecha(parsed)

\* the classifier let the expression through, no pattern rule matched it,
\* every attempt of the parser returned nothing and the fallback gave null
\* (no client, an exception, or a reply that is no ISO date-time)
SinInterpretacion ==
  /\ pc = "done" /\ etapa # "unexpected"
  /\ calls.preprocesador = 1
  /\ patrones[snapshot][req.expresion_usuario].regla = 0
  /\ calls.chrono >= 1 /\ parsed = null
  /\ parsearConOpenAI(snapshot, openai, llm.fallback, req.zona_horaria) = null

(***************************************************************************)
(* C12. When the classifier lets the expression through, no pattern rule   *)
(* matches, every attempt of the parser gives no candidate and the model   *)
(* fallback gives none (or no model is configured), the response is 200    *)
(* with error = true and a mensaje and nothing else: no date field, never  *)
(* 500 and never the "sin_definir" response.                               *)
(***************************************************************************)
C12_SinInterpretacion ==
  SinInterpretacion =>
     /\ res = [status |-> 200, error |-> TRUE, mensaje |-> "No se pudo interpretar la fecha."]
     /\ etapa = "unresolved"

\* the model answered with a text that is no date, after three attempts of
\* the parser on a Catalan expression
C12_Witness ==
  /\ SinInterpretacion
  /\ openai /\ llm.fallback.tipo = "otro"
  /\ calls.chrono = 3
  /\ res.error = TRUE /\ res.status = 200

(***************************************************************************)
(* C13. An exception of the external parser or of a model call is taken as *)
(* "no candidate" and the request goes on with the next stage: no request  *)
(* is answered 500; after an exception of the translation the fallback is  *)
(* next, without a further attempt of the parser; after an exception of    *)
(* the date fallback the request is answered as when the fallback gives    *)
(* nothing.                                                                *)
(* Violated: the calls of the parser have no handler of their own, an      *)
(* exception of chrono.es.parseDate reaches the catch of the route, which  *)
(* answers 500.                                                            *)
(***************************************************************************)
C13_FallosAbsorbidos ==
  /\ pc = "done" => res.status # 500 /\ etapa # "unexpected"
  /\ llm.traduccion = "throw" =>
        /\ pc \in {"fallback", "done"}
        /\ parsed = null /\ calls.chrono \in {1, 2}
  /\ (pc = "done" /\ llm.fallback.tipo = "throw") =>
        IF parsed = null
        THEN etapa = "unresolved" /\ res.status = 200 /\ res.error = TRUE
        ELSE etapa \in {"parser", "corrected"} /\ fecha = corregida

\* the expressions that contain one of the Catalan marker words
ConMarcaCatalana ==
  [e \in Expresiones |->
     \E k \in 1..Len(palabrasCatalanas) : Includes(toLowerCase(e), palabrasCatalanas[k])]

\* the weekday of the emitted calendar date, 1 = Monday .. 7 = Sunday
DiaSemanaEmitido == (res.fecha_resuelta % 7) + 1

(***************************************************************************)
(* C14. For every resolved date, es_finde is true exactly when the emitted *)
(* date is a Saturday or a Sunday, and dia_semana is the Catalan name of   *)
(* its weekday exactly when the expression contains a Catalan marker word, *)
(* the Spanish name otherwise.                                             *)
(***************************************************************************)
C14_FindeEIdioma ==
  Resuelta =>
     /\ res.es_finde = (DiaSemanaEmitido \in {6, 7})
     /\ res.dia_semana =
          IF ConMarcaCatalana[req.expresion_usuario]
          THEN <<"dilluns", "dimarts", "dimecres", "dijous", "divendres",
                 "dissabte", "diumenge">>[DiaSemanaEmitido]
          ELSE <<"lunes", "martes", "miércoles", "jueves", "viernes",
                 "sábado", "domingo">>[DiaSemanaEmitido]

\* a Catalan expression has been resolved to a Saturday
C14_Witness ==
  /\ Resuelta
  /\ req.expresion_usuario = "dijous a les 7"
  /\ res.dia_semana = "dissabte"
  /\ res.es_finde

\* the pattern rules an expression matches, each taken on its own; rule 3
\* exists in part_002 only
ReglasQueCoinciden ==
  [snap \in Snapshots |->
     [e \in Expresiones |->
        {n \in 1..4 :
           \/ n = 1 /\ \/ CapturaHora(toLowerCase(e), "pasado", "mañana", "a", "las") # ""
                       \/ CapturaHora(toLowerCase(e), "demà", "passat", "a", "les") # ""
           \/ n = 2 /\ \/ Includes(toLowerCase(e), "pasado mañana")
                       \/ Includes(toLowerCase(e), "demà passat")
           \/ n = 3 /\ snap = "part_002"
                    /\ \/ CapturaDia(trim(toLowerCase(e)), "matchSemanaQueViene1") # ""
                       \/ CapturaDia(trim(toLowerCase(e)), "matchSemanaQueViene2") # ""
           \/ n = 4 /\ CapturaDia(trim(toLowerCase(e)), "matchQueViene") # ""}]]

\* the least element of a non-empty set of numbers
Minimo(S) == CHOOSE n \in S : \A m \in S : n <= m

(***************************************************************************)
(* C15. The pattern rules are tried in the order 1, 2, 3, 4 and the first  *)
(* that matches decides alone: an expression that matches rules 3 and 4 is *)
(* resolved to the weekday of next week, one that matches rules 1 and 2 to *)
(* the hour it names.  Once a rule matches, neither the parser, the        *)
(* corrector, the translation nor the model fallback is called for the     *)
(* request.                                                                *)
(***************************************************************************)
C15_OrdenDeReglas ==
  (pc # "idle" /\ calls.preprocesador = 1) =>
     LET e == req.expresion_usuario
         R == ReglasQueCoinciden[snapshot][e]
     IN IF R = {}
        THEN etapa # "pattern" /\ patrones[snapshot][e].regla = 0
        ELSE /\ pc = "done" /\ etapa = "pattern"
             /\ patrones[snapshot][e].regla = Minimo(R)
             /\ calls.chrono = 0 /\ calls.corrector = 0
             /\ calls.traduccion = 0 /\ calls.fallback = 0
             /\ llm = NoLlm /\ parsed = null
             /\ {3, 4} \subseteq R =>
                   res.fecha_resuelta \div 7 = day(RefPatron) \div 7 + 1
             /\ {1, 2} \subseteq R => res.hora[2] = 0

\* on a Monday an expression that matches rules 3 and 4 has been resolved to
\* the Tuesday of next week, not to the next day
C15_Witness ==
  /\ PorRegla(3)
  /\ ReglasQueCoinciden[snapshot][req.expresion_usuario] = {3, 4}
  /\ weekday(RefPatron) = 1
  /\ res.fecha_resuelta = day(RefPatron) + 8

\* the number an expression of rule 1 gives as the hour
HoraNombrada == patrones[snapshot][req.expresion_usuario].horaNum

(***************************************************************************)
(* C16. Rule 1 ("pasado mañana a las H", "demà passat a les H"), for every *)
(* number H, resolves to the reference date plus two days at H:00, H being *)
(* an hour from 0 to 23, and the response carries that date and the hora   *)
(* H:00.  Dates are those of the zone the rule computes in.                *)
(* Violated: the rule passes any number to DateTime.set, and an hour of 24 *)
(* or more runs over into the following days.                              *)
(***************************************************************************)
C16_PasadoMananaHora ==
  PorRegla(1) =>
     /\ HoraNombrada \in 0..23
     /\ res.fecha_resuelta = day(RefPatron) + 2
     /\ res.hora = <<HoraNombrada, 0>>
     /\ res.iso_datetime.fecha = res.fecha_resuelta
     /\ res.iso_datetime.hora = HoraNombrada

\* the reference as validarYCorregirFecha reads it
RefCorrector == fromJSDate(toJSDate(refDate), localZone)

\* the case in which the past-date correction is to fire: a candidate before
\* the reference, for an article + weekday expression that is no day count
CorreccionDebida ==
  /\ parsed.ts < refDate.ts
  /\ rasgos[req.expresion_usuario].esDiaSemanaEspecifico
  /\ ~rasgos[req.expresion_usuario].esConteoDias

\* (candidate's weekday - reference's weekday) mod 7, with 7 in place of 0
DiasCorreccion ==
  LET d == (weekday(parsed) - weekday(RefCorrector)) % 7
  IN IF d = 0 THEN 7 ELSE d

(***************************************************************************)
(* C17. The past-date correction fires only for a candidate before the     *)
(* reference when the expression is an article + weekday phrase and no day *)
(* count: the candidate is replaced by the reference date plus d days,     *)
(* d = (candidate's weekday - reference's weekday) mod 7 with 7 for 0, at  *)
(* the candidate's hour and minute, which is after the reference.  In      *)
(* every other case the candidate's date stays as it is.                   *)
(* Violated: src/server.js moves every candidate before the reference,     *)
(* whatever the expression, and on a Friday moves it to the Monday.        *)
(***************************************************************************)
C17_CorreccionPasada ==
  corregida # null =>
     IF CorreccionDebida
     THEN /\ day(corregida) = day(RefCorrector) + DiasCorreccion
          /\ minute(corregida) = minute(parsed)
          /\ hour(corregida) \in {hour(parsed), horaPorDefecto(snapshot), 19, 14}
          /\ corregida.ts > refDate.ts
     ELSE day(corregida) = day(parsed)

\* the candidate has no time of day and the expression no hour or minute
\* token (a number followed by h, hora, hrs, m, minuto ...)
SinHora ==
  /\ hour(parsed) = 0 /\ minute(parsed) = 0
  /\ ~rasgos[req.expresion_usuario].horaExplicita

(***************************************************************************)
(* C18. The corrector sets the time to the default hour, minute 0, exactly *)
(* when the candidate's time is 00:00 and the expression has no explicit   *)
(* hour or minute token.  A candidate with another time, or an expression  *)
(* with such a token, keeps its time under this rule: the minute stays,    *)
(* and the hour changes only by the rules for "a las 7" and for the        *)
(* morning window.                                                         *)
(***************************************************************************)
C18_HoraPorDefecto ==
  corregida # null =>
     IF SinHora
     THEN /\ hour(corregida) = (IF snapshot = "server.js" THEN 14 ELSE 12)
          /\ minute(corregida) = 0
     ELSE /\ minute(corregida) = minute(parsed)
          /\ \/ hour(corregida) = hour(parsed)
             \/ hour(parsed) = 7 /\ hour(corregida) = 19
             \/ snapshot = "server.js" /\ hour(parsed) \in 10..13 /\ hour(corregida) = 14

\* a candidate at 00:00 for an expression with an hour token keeps 00:00
C18_Witness ==
  /\ corregida # null
  /\ rasgos[req.expresion_usuario].horaExplicita
  /\ hour(parsed) = 0 /\ minute(parsed) = 0
  /\ hour(corregida) = 0 /\ minute(corregida) = 0

(***************************************************************************)
(* C19. In the snapshot with the morning window (src/server.js, Fridays):  *)
(* what the corrector returns never has an hour from 10 to 13 on a day     *)
(* other than Friday, such a candidate is moved to 14 with its minutes,    *)
(* and a Friday candidate with an hour from 10 to 13 keeps its hour.       *)
(***************************************************************************)
C19_HorarioManana ==
  (snapshot = "server.js" /\ corregida # null) =>
     /\ weekday(corregida) # 5 => hour(corregida) \notin 10..13
     /\ (weekday(parsed) # 5 /\ hour(parsed) \in 10..13) =>
           hour(corregida) = 14 /\ minute(corregida) = minute(parsed)
     /\ (weekday(parsed) = 5 /\ hour(parsed) \in 10..13) =>
           /\ hour(corregida) = hour(parsed) /\ minute(corregida) = minute(parsed)
           /\ weekday(corregida) = 5

\* a Friday candidate at 11:30 before the reference has been moved to the
\* next Friday and keeps 11:30
C19_Witness ==
  /\ snapshot = "server.js" /\ corregida # null
  /\ weekday(parsed) = 5 /\ parsed.ts < refDate.ts
  /\ corregida.ts > refDate.ts
  /\ hour(corregida) = 11 /\ minute(corregida) = 30

\* the attempts of the parser the request is due before the fallback: one,
\* and for a Catalan expression one more if the substitution table changes
\* the text and one more if the model gave a translation
IntentosDebidos ==
  1 + (IF idiomas[req.expresion_usuario] = "ca" /\ cambiaTraduccion[req.expresion_usuario]
       THEN 1 ELSE 0)
    + (IF llm.traduccion = "texto" THEN 1 ELSE 0)

(***************************************************************************)
(* C20. Within a request the model date fallback is called at most once,   *)
(* after all attempts of the parser, and only when the parser gave no      *)
(* candidate or when the corrected candidate is before the reference and a *)
(* model is configured; never after a pattern rule matched and never for a *)
(* corrected candidate that is not before the reference.                   *)
(***************************************************************************)
C20_FallbackUnaVez ==
  /\ calls.fallback <= 1
  /\ pc = "fallback" =>
        /\ calls.fallback = 0 /\ parsed = null
        /\ calls.chrono = IntentosDebidos
        /\ patrones[snapshot][req.expresion_usuario].regla = 0
  /\ pc = "doble_check" =>
        /\ calls.fallback = 0 /\ openai
        /\ corregida # null /\ corregida.ts < refDate.ts
        /\ patrones[snapshot][req.expresion_usuario].regla = 0
  /\ calls.fallback = 1 =>
        /\ pc = "done" /\ openai /\ etapa # "pattern"
        /\ parsed = null \/ corregida.ts < refDate.ts
  /\ (corregida # null /\ corregida.ts >= refDate.ts) =>
        pc = "done" /\ calls.fallback = 0 /\ llm.fallback = NoReply

\* the double check has asked the model once and taken its date
C20_Witness ==
  /\ pc = "done" /\ calls.fallback = 1
  /\ corregida # null /\ corregida.ts < refDate.ts
  /\ etapa = "fallback" /\ fecha.ts >= refDate.ts

\* the parser gave nothing and the model has answered to the date fallback
RespondioElModelo ==
  pc = "done" /\ parsed = null /\ llm.fallback # NoReply

(***************************************************************************)
(* C21. The reply of the model to the fallback is read after quotes and    *)
(* surrounding blanks are taken off: the sentinel word, quoted or not,     *)
(* gives the "sin_definir" result; else a valid ISO date-time gives that   *)
(* date; anything else, an empty reply included, gives nothing.            *)
(* Violated: part_002 compares with the sentinel before it takes the       *)
(* quotes off, and takes an empty reply for the sentinel.                  *)
(***************************************************************************)
C21_RespuestaDelModelo ==
  (snapshot = "part_002" /\ RespondioElModelo) =>
     CASE llm.fallback.tipo = "sin_definir" ->
            etapa = "undefined" /\ res = respuestaSinDefinir
       [] llm.fallback.tipo = "iso" ->
            etapa = "fallback" /\ fecha = fromJSDate(llm.fallback.ts, req.zona_horaria)
       [] llm.fallback.tipo \in {"vacio", "otro"} ->
            etapa = "unresolved" /\ res.error = TRUE
       [] OTHER -> TRUE

\* the request's expression is Catalan for the language detector
EsCatalana == idiomas[req.expresion_usuario] = "ca"

\* the fixed substitution table changes the request's expression
HaySustitucion == cambiaTraduccion[req.expresion_usuario]

(***************************************************************************)
(* C22. For a Spanish expression the parser is called once and no          *)
(* translation is requested.  For a Catalan expression the attempts are    *)
(* the direct one, the one on the text after the fixed substitutions, and  *)
(* the one on the model's translation, in that order, each only when all   *)
(* earlier ones gave no candidate; the translation is requested at most    *)
(* once and only with a model configured; the fallback is reached only     *)
(* when every attempt has failed.                                          *)
(***************************************************************************)
C22_OrdenDelParser ==
  /\ calls.traduccion <= 1
  /\ calls.traduccion = 1 => openai /\ EsCatalana /\ llm.traduccion # "no"
  /\ (pc # "idle" /\ ~EsCatalana) =>
        /\ calls.chrono <= 1 /\ calls.traduccion = 0
        /\ pc \notin {"chrono_manual", "traducir", "chrono_traduccion"}
  /\ pc = "chrono" => calls.chrono = 0
  /\ pc = "chrono_manual" =>
        EsCatalana /\ HaySustitucion /\ calls.chrono = 1 /\ calls.traduccion = 0
  /\ pc = "traducir" =>
        /\ EsCatalana /\ openai /\ calls.traduccion = 0
        /\ calls.chrono = (IF HaySustitucion THEN 2 ELSE 1)
  /\ pc = "chrono_traduccion" =>
        /\ llm.traduccion = "texto" /\ calls.traduccion = 1
        /\ calls.chrono = (IF HaySustitucion THEN 2 ELSE 1)
  /\ pc \in {"chrono_manual", "traducir", "chrono_traduccion", "fallback"} => parsed = null
  /\ pc = "fallback" =>
        /\ calls.chrono = IntentosDebidos
        /\ (EsCatalana /\ openai) => calls.traduccion = 1
  /\ parsed # null => pc \in {"doble_check", "done"}

\* a Catalan expression has got its candidate in the third attempt, on the
\* model's translation
C22_Witness ==
  /\ EsCatalana /\ HaySustitucion
  /\ calls.chrono = 3 /\ calls.traduccion = 1
  /\ parsed # null /\ pc = "done"

\* the expressions that are a phrase of the greeting list, alone or followed
\* by one of . ! ?, blanks around them and case aside
EsSaludo ==
  [e \in Expresiones |->
     \E k \in 1..Len(soloSaludos), p \in {"", ".", "!", "?"} :
        trim(toLowerCase(e)) = soloSaludos[k] \o p]

(***************************************************************************)
(* C23. Every phrase of the classifier's greeting list, sent alone or with *)
(* one of . ! ? after it, is classified as not temporally clear and is     *)
(* answered with the "sin_definir" response, never with a date or an       *)
(* error.                                                                  *)
(* Violated: the classifier looks for its temporal keywords first, as      *)
(* substrings, and "buenos días" holds "día" (and "en" is in "buenas").    *)
(***************************************************************************)
C23_Saludos ==
  (snapshot = "part_002" /\ pc = "done" /\ req.referencia.tipo # "missing"
     /\ EsSaludo[req.expresion_usuario]) =>
        /\ ~clasificacion[req.expresion_usuario]
        /\ etapa = "undefined"
        /\ res = respuestaSinDefinir

\* what the corrector of the request's snapshot makes of a candidate of the
\* parser for "viernes" on the day after the reference, at 00:00
SinHoraCorregida ==
  validarYCorregirFecha(snapshot, localZone,
                        plusDays(setHourMinute(refDate, 0, 0), 1),
                        toJSDate(refDate), "viernes")

(***************************************************************************)
(* C24. A snapshot has one default hour: the hour rules 3 and 4 give to a  *)
(* weekday phrase without a time is the hour the corrector's default-hour  *)
(* rule gives to a candidate of the parser without a time.                 *)
(* Violated: in part_002 rules 3 and 4 set 14:00 and the corrector 12:00.  *)
(***************************************************************************)
C24_UnaHoraPorDefecto ==
  (PorRegla(3) \/ PorRegla(4)) =>
     /\ hour(fecha) = hour(SinHoraCorregida)
     /\ minute(fecha) = minute(SinHoraCorregida)

(***************************************************************************)
(* C25. A resolved date that comes from the model fallback is never before *)
(* the reference, and es_pasado is false, on both paths that take a date   *)
(* of the fallback: after the parser gave nothing, and after a corrected   *)
(* candidate that was still before the reference.  A fallback date before  *)
(* the reference is not taken.                                             *)
(* Violated: after the parser gave nothing the handler takes whatever date *)
(* the fallback returns; only the double check compares it with the        *)
(* reference.                                                              *)
(***************************************************************************)
C25_FallbackNoPasado ==
  (pc = "done" /\ etapa = "fallback") =>
     /\ fecha.ts >= refDate.ts
     /\ ~res.es_pasado
====
